---- MODULE Spec2Model ----
(***************************************************************************)
(* Verification model of three components of the agent:                    *)
(*   - the container Scanner (pkg/logs/input/container/scanner.go),        *)
(*   - the FileProvider     (FilesToTail),                                 *)
(*   - the docker eventFanout (Setup/Suscribe/Unsuscribe/Stop/dispatch).   *)
(* Strings are sequences of one-character strings, so that splitting,      *)
(* trimming and wildcard detection are computed and not assumed.           *)
(* Each component has its own specification (SpecMatch, SpecScanner,       *)
(* SpecFiles; for the fanout SpecSetup, SpecFanout, SpecRestart, SpecCalls *)
(* and SpecAutoStop); the variables of the other components stay at their  *)
(* idle values.                                                            *)
(***************************************************************************)
EXTENDS Integers, Sequences, FiniteSets, TLC

VARIABLES
    \* ---- match predicate harness (sourceShouldMonitorContainer) ----
    mSource,      \* the LogSource config under test: [Image, Label]
    mContainer,   \* the container under test: [ID, Image, Labels]
    mPc,          \* "call" before sourceShouldMonitorContainer ran, then "done"
    mResult       \* the value it returned (FALSE before the call)

mvars == <<mSource, mContainer, mPc, mResult>>

VARIABLES
    \* ---- Scanner ----
    sSources,     \* Scanner.sources, as New filtered them
    sTailers,     \* Scanner.tailers: container ID -> tailer (0: no entry)
    sObjs,        \* the DockerTailer objects that are live (created, not stopped)
    sShouldStop,  \* Scanner.shouldStop
    sMu,          \* Scanner.mu: "free", or who holds it: "scan" / "stop"
    sTickerOn,    \* the ticker has not been stopped
    sTick,        \* a tick is waiting in ticker.C
    sNextChan,    \* the pipeline provider's round-robin position
    sPc,          \* where the goroutine of Start / run is
    sScan,        \* the locals of the scan in progress
    sLast,        \* what the last scan that returned saw and left
    stPc,         \* where the caller of Stop is
    stTasks,      \* tailers whose stop goroutine has not finished (the WaitGroup)
    stRegistered  \* tailers that were registered when Stop took the mutex

svars == <<sSources, sTailers, sObjs, sShouldStop, sMu, sTickerOn, sTick, sNextChan,
           sPc, sScan, sLast, stPc, stTasks, stRegistered>>

VARIABLES
    \* ---- FileProvider ----
    fSources,     \* FileProvider.sources: [Path, Glob], Glob being what
                  \* filepath.Glob answers for Path on this filesystem
    fLimit,       \* FileProvider.filesLimit
    fFiles,       \* what FilesToTail returned: [Path, Source] (Source: its index)
    fErrors,      \* errors recorded on each source's Status, by index
    fWarned,      \* the saturation warning was logged
    fPc           \* "call" before FilesToTail ran, then "done"

fvars == <<fSources, fLimit, fFiles, fErrors, fWarned, fPc>>

VARIABLES
    \* ---- eventFanout ----
    eCfg,         \* eventFanout.config
    eGen,         \* which dataInput / errorInput / stopChan / listeners the instance
                  \* holds: 0 before the first successful Setup (nil channels)
    eSetups,      \* Setup calls made
    eSetup,       \* the Setup call that is returning: its argument, its results
                  \* and the fields as they were before it
    eListeners,   \* eventFanout.listeners: name -> output (0: no entry)
    eOuts,        \* the eventOutput objects made so far, with what was enqueued
    eRunning,     \* eventFanout.running
    eStop,        \* signals buffered in stopChan (capacity 1)
    eStopWaiters, \* callers of Stop blocked on the send to stopChan
    eLock,        \* the RWMutex, write side: NoHolder, Caller or a dispatch loop
    eReaders,     \* the RWMutex, read side: the dispatch loops holding RLock
    eLoops,       \* the dispatch goroutines
    ePublished,   \* the kinds of the items the producer has sent so far
    ePanic,       \* a goroutine panicked: the process is gone
    eCall         \* the last call seen by SpecCalls, if it returned an error:
                  \* "Suscribe" or "Unsuscribe"; "none" after a call that did not

evars == <<eCfg, eGen, eSetups, eSetup, eListeners, eOuts, eRunning, eStop, eStopWaiters,
           eLock, eReaders, eLoops, ePublished, ePanic, eCall>>

vars == <<mvars, svars, fvars, evars>>

\* The variables of the other components, which a step of one leaves alone.
sOther == <<mvars, fvars, evars>>
mOther == <<svars, fvars, evars>>
fOther == <<mvars, svars, evars>>
eOther == <<mvars, svars, fvars>>

(***************************************************************************)
(* Strings                                                                 *)
(***************************************************************************)
EmptyStr == <<>>

\* Longest label filter drawn for the match predicate.
MaxLabelLen == 4

LabelAlphabet == {"a", "b", ":", "=", ",", " "}

RECURSIVE StringsUpTo(_)
StringsUpTo(n) ==
    IF n = 0 THEN {EmptyStr}
    ELSE LET shorter == StringsUpTo(n - 1)
         IN  shorter \cup {Append(s, c) : s \in {t \in shorter : Len(t) = n - 1},
                                          c \in LabelAlphabet}

\* strings.Split(s, ","): the substrings between the commas, empty ones kept;
\* an empty s gives one empty substring.
RECURSIVE SplitFrom(_, _, _, _)
SplitFrom(s, i, cur, acc) ==
    IF i > Len(s) THEN Append(acc, cur)
    ELSE IF s[i] = "," THEN SplitFrom(s, i + 1, EmptyStr, Append(acc, cur))
    ELSE SplitFrom(s, i + 1, Append(cur, s[i]), acc)

Split(s) == SplitFrom(s, 1, EmptyStr, <<>>)

\* strings.TrimSpace(s): s without its leading and trailing white space.
RECURSIVE TrimLeft(_)
TrimLeft(s) ==
    IF s # EmptyStr /\ Head(s) = " " THEN TrimLeft(Tail(s)) ELSE s

RECURSIVE TrimRight(_)
TrimRight(s) ==
    IF s # EmptyStr /\ s[Len(s)] = " " THEN TrimRight(SubSeq(s, 1, Len(s) - 1)) ELSE s

TrimSpace(s) == TrimRight(TrimLeft(s))

\* A plausible slip: only ':' separates key and value.
IsLabelSeparatorColonOnly(c) == c = ":"

\* The separator test handed to strings.FieldsFunc.
IsLabelSeparator(c) == c = ":" \/ c = "="

\* strings.FieldsFunc(s, IsLabelSeparator): the maximal runs of characters
\* that are not separators; no field is empty.
RECURSIVE FieldsFrom(_, _, _, _)
FieldsFrom(s, i, cur, acc) ==
    IF i > Len(s) THEN (IF cur = EmptyStr THEN acc ELSE Append(acc, cur))
    ELSE IF IsLabelSeparator(s[i])
         THEN FieldsFrom(s, i + 1, EmptyStr, IF cur = EmptyStr THEN acc ELSE Append(acc, cur))
         ELSE FieldsFrom(s, i + 1, Append(cur, s[i]), acc)

FieldsFunc(s) == FieldsFrom(s, 1, EmptyStr, <<>>)

(***************************************************************************)
(* Containers and sources                                                  *)
(***************************************************************************)
\* container.Labels is a map; it is kept as a set of <<key, value>> pairs with
\* distinct keys.
LabelKeys(labels) == {p[1] : p \in labels}

\* Go's map read: the value, or the empty string for a missing key.
LabelValue(labels, k) ==
    IF k \in LabelKeys(labels) THEN (CHOOSE p \in labels : p[1] = k)[2] ELSE EmptyStr

\* The test made on one comma-separated entry of source.Config.Label.
LabelEntryMatches(value, labels) ==
    LET label == TrimSpace(value)
        parts == FieldsFunc(label)
    IN  \/ label \in LabelKeys(labels)
        \/ /\ Len(parts) = 2
           /\ LabelValue(labels, parts[1]) = parts[2]

\* A plausible slip, and the reading in which image and label are
\* alternatives: the label filter is only looked at when no image is set.
sourceShouldMonitorContainerElseIf(source, container) ==
    IF source.Image # EmptyStr
    THEN container.Image = source.Image
    ELSE IF source.Label # EmptyStr
         THEN \E i \in 1..Len(Split(source.Label)) :
                  LabelEntryMatches(Split(source.Label)[i], container.Labels)
         ELSE TRUE

sourceShouldMonitorContainer(source, container) ==
    IF source.Image # EmptyStr /\ container.Image # source.Image
    THEN FALSE
    ELSE IF source.Label # EmptyStr
         THEN \E i \in 1..Len(Split(source.Label)) :
                  LabelEntryMatches(Split(source.Label)[i], container.Labels)
         ELSE TRUE

\* The match harness at rest, for the specifications of the other components.
MatchIdle ==
    /\ mSource = [Image |-> EmptyStr, Label |-> EmptyStr]
    /\ mContainer = [ID |-> "c1", Image |-> <<"n">>, Labels |-> {}]
    /\ mPc = "call"
    /\ mResult = FALSE

(***************************************************************************)
(* FileProvider                                                            *)
(***************************************************************************)
\* Sources handed to NewFileProvider.
MaxSources == 3

\* Largest filesLimit drawn.
MaxLimit == 3

WildcardChars == {"*", "?", "["}

\* strings.ContainsAny(path, "*?[")
containsWildcards(path) == \E i \in 1..Len(path) : path[i] \in WildcardChars

\* What filepath.Glob answers: an error for a malformed pattern, or the paths
\* that match, in the order the filesystem reports them.
GlobBad == [err |-> TRUE, paths |-> <<>>]
GlobOk(paths) == [err |-> FALSE, paths |-> paths]

PathX == <<"x">>
PathY == <<"y">>

\* The sources drawn: literal paths (Glob is not called for them), patterns
\* with no, one or several matches, and a malformed pattern.
SourceChoices ==
    { [Path |-> <<"a">>, Glob |-> GlobOk(<<>>)],
      [Path |-> <<"b">>, Glob |-> GlobOk(<<>>)],
      [Path |-> <<"*">>, Glob |-> GlobOk(<<>>)],
      [Path |-> <<"*">>, Glob |-> GlobOk(<<PathX>>)],
      [Path |-> <<"*">>, Glob |-> GlobOk(<<PathY, PathX>>)],
      [Path |-> <<"a", "?">>, Glob |-> GlobOk(<<PathX, PathY, <<"a", "x">>>>)],
      [Path |-> <<"[">>, Glob |-> GlobBad] }

RECURSIVE SourceListsUpTo(_)
SourceListsUpTo(n) ==
    IF n = 0 THEN {<<>>}
    ELSE LET shorter == SourceListsUpTo(n - 1)
         IN  shorter \cup {Append(l, src) : l \in {k \in shorter : Len(k) = n - 1},
                                            src \in SourceChoices}

NewFile(path, source) == [Path |-> path, Source |-> source]

\* A plausible slip: every match is appended, whatever the limit.
appendMatchesUnbounded(filesToTail, paths, source, filesLimit, j) ==
    filesToTail \o [k \in 1..Len(paths) |-> NewFile(paths[k], source)]

\* A plausible slip: the matches are taken from the last one on.
appendMatchesLastFirst(filesToTail, paths, source, filesLimit, j) ==
    LET room == filesLimit - Len(filesToTail)
        n == IF Len(paths) < room THEN Len(paths) ELSE room
    IN  filesToTail \o [k \in 1..n |-> NewFile(paths[Len(paths) + 1 - k], source)]

\* Lines 75-77 of FilesToTail: the inner loop, from index j.
RECURSIVE appendMatches(_, _, _, _, _)
appendMatches(filesToTail, paths, source, filesLimit, j) ==
    IF j <= Len(paths) /\ Len(filesToTail) < filesLimit
    THEN appendMatches(Append(filesToTail, NewFile(paths[j], source)),
                       paths, source, filesLimit, j + 1)
    ELSE filesToTail

\* A plausible slip: the failed expansion is logged and not recorded on the
\* source's status.
globFailedUnrecorded(errors, i) == errors

\* source.Status.Error(err), lines 65 and 71.
globFailed(errors, i) == [errors EXCEPT ![i] = @ + 1]

\* Lines 53-78 of FilesToTail: the loop over the sources, from index i;
\* gives the files and the errors recorded.
RECURSIVE filesLoop(_, _, _, _, _)
filesLoop(sources, filesLimit, i, filesToTail, errors) ==
    IF i <= Len(sources) /\ Len(filesToTail) < filesLimit
    THEN LET source == sources[i]
             path == source.Path
         IN  IF ~containsWildcards(path)
             THEN filesLoop(sources, filesLimit, i + 1,
                            Append(filesToTail, NewFile(path, i)), errors)
             ELSE IF source.Glob.err \/ Len(source.Glob.paths) = 0
             THEN filesLoop(sources, filesLimit, i + 1, filesToTail, globFailed(errors, i))
             ELSE filesLoop(sources, filesLimit, i + 1,
                            appendMatches(filesToTail, source.Glob.paths, i, filesLimit, 1),
                            errors)
    ELSE <<filesToTail, errors>>

FilesInit ==
    /\ fSources \in SourceListsUpTo(MaxSources)
    /\ fLimit \in 0..MaxLimit
    /\ fFiles = <<>>
    /\ fErrors = [i \in 1..Len(fSources) |-> 0]
    /\ fWarned = FALSE
    /\ fPc = "call"

\* The file provider at rest, for the specifications of the other components.
FilesIdle ==
    /\ fSources = <<>>
    /\ fLimit = 0
    /\ fFiles = <<>>
    /\ fErrors = <<>>
    /\ fWarned = FALSE
    /\ fPc = "call"

FilesToTail ==
    /\ fPc = "call"
    /\ LET out == filesLoop(fSources, fLimit, 1, <<>>, fErrors)
       IN  /\ fFiles' = out[1]
           /\ fErrors' = out[2]
           /\ fWarned' = (Len(out[1]) = fLimit)
    /\ fPc' = "done"
    /\ UNCHANGED <<fSources, fLimit>>
    /\ UNCHANGED fOther

(***************************************************************************)
(* Claims about the FileProvider                                           *)
(***************************************************************************)
FilesDone == fPc = "done"

IsWildcarded(i) == \E k \in 1..Len(fSources[i].Path) : fSources[i].Path[k] \in {"*", "?", "["}

\* The wildcarded sources whose expansion failed or found nothing.
Fruitless(i) ==
    /\ IsWildcarded(i)
    /\ (fSources[i].Glob.err \/ fSources[i].Glob.paths = <<>>)

\* How many files source i has to offer.
Offered(i) ==
    IF ~IsWildcarded(i) THEN 1
    ELSE IF fSources[i].Glob.err THEN 0
    ELSE Len(fSources[i].Glob.paths)

RECURSIVE OfferedBefore(_)
OfferedBefore(i) == IF i <= 1 THEN 0 ELSE OfferedBefore(i - 1) + Offered(i - 1)

\* How many of the returned files come from source i.
Contributed(i) == Cardinality({k \in 1..Len(fFiles) : fFiles[k].Source = i})

Min(a, b) == IF a < b THEN a ELSE b

\* C6: FilesToTail never returns more files than the limit.
C6_AtMostLimitFiles ==
    FilesDone => Len(fFiles) <= fLimit

\* The sources offer more than the limit, literal and wildcarded ones among
\* them, and the limit is what was returned.
C6_Witness ==
    /\ FilesDone
    /\ fLimit = 2
    /\ Len(fFiles) = 2
    /\ Len(fSources) = 2
    /\ ~IsWildcarded(1)
    /\ IsWildcarded(2)
    /\ Offered(2) = 3

\* C7 as stated: in every call every fruitless wildcarded source gets exactly
\* one error and gives no file.
C7_EveryFruitlessSourceGetsOneError ==
    FilesDone =>
        \A i \in 1..Len(fSources) :
            Fruitless(i) => (fErrors[i] = 1 /\ Contributed(i) = 0)

\* C7 amended: a fruitless wildcarded source gives no file, and gets exactly
\* one error when the call reaches it (the sources before it offer fewer
\* files than the limit) and none when the limit was reached before it; every
\* other source still gives its files, up to the limit.
C7_FruitlessSourceReached ==
    FilesDone =>
        \A i \in 1..Len(fSources) :
            /\ Fruitless(i) =>
                  /\ Contributed(i) = 0
                  /\ fErrors[i] = IF OfferedBefore(i) < fLimit THEN 1 ELSE 0
            /\ ~Fruitless(i) =>
                  /\ fErrors[i] = 0
                  /\ Contributed(i) =
                        IF OfferedBefore(i) < fLimit
                        THEN Min(Offered(i), fLimit - OfferedBefore(i))
                        ELSE 0

\* A pattern without matches and a malformed one, each with its error, and
\* the literal source after them gives its file.
C7_Witness ==
    /\ FilesDone
    /\ Len(fSources) = 3
    /\ Fruitless(1) /\ ~fSources[1].Glob.err
    /\ Fruitless(2) /\ fSources[2].Glob.err
    /\ ~IsWildcarded(3)
    /\ fErrors = <<1, 1, 0>>
    /\ fFiles = <<[Path |-> fSources[3].Path, Source |-> 3]>>

\* What source i has to give: its literal path, or the matches of its
\* pattern in the order of the expansion.
Contribution(i) ==
    IF ~IsWildcarded(i) THEN <<[Path |-> fSources[i].Path, Source |-> i]>>
    ELSE IF fSources[i].Glob.err THEN <<>>
    ELSE [k \in 1..Len(fSources[i].Glob.paths) |->
             [Path |-> fSources[i].Glob.paths[k], Source |-> i]]

\* The contributions of the sources 1..i, in the order of the list.
RECURSIVE ContributionsUpTo(_)
ContributionsUpTo(i) ==
    IF i = 0 THEN <<>> ELSE ContributionsUpTo(i - 1) \o Contribution(i)

MaxTailers == 3

\* Output channels the pipeline provider hands out in turn.
NumPipelines == 2

DockerType == "docker"
FileType == "file"

SrcNginx == [Type |-> DockerType, Image |-> <<"n">>, Label |-> EmptyStr]
SrcLabel == [Type |-> DockerType, Image |-> EmptyStr, Label |-> <<"a", ":", "b">>]
SrcFile  == [Type |-> FileType, Image |-> EmptyStr, Label |-> EmptyStr]

\* The source lists handed to New.
RawSourceLists ==
    { <<SrcFile>>, <<SrcNginx>>, <<SrcFile, SrcLabel, SrcNginx>> }

CtrA == [ID |-> "c1", Image |-> <<"n">>, Labels |-> {<<<<"a">>, <<"b">>>>}]
CtrB == [ID |-> "c2", Image |-> <<"r">>, Labels |-> {<<<<"a">>, <<"b">>>>}]
CtrC == [ID |-> "c3", Image |-> <<"r">>, Labels |-> {}]

ContainerIDs == {"c1", "c2", "c3"}

\* What ContainerList can answer: the running containers, IDs distinct.
Snapshots == { <<>>, <<CtrA>>, <<CtrB>>, <<CtrA, CtrB>>, <<CtrC, CtrA>> }

NoTailer == [cid |-> "none", shouldStop |-> FALSE, fromBeginning |-> FALSE, chan |-> 0]

TailerIds == 1..MaxTailers

Live == {t \in TailerIds : sObjs[t] # NoTailer}

\* The scan under way; made is the set of containers it has set a tailer up
\* for so far.
NoScan == [mode |-> FALSE, setup |-> FALSE, snap |-> <<>>, failed |-> FALSE,
           i |-> 1, j |-> 1, monitor |-> {}, made |-> {}]

NoLast == [valid |-> FALSE, snap |-> <<>>, failed |-> FALSE, ids |-> {}, repeated |-> FALSE,
           sameIds |-> TRUE]

\* New: keeps the sources of the docker type.
RECURSIVE containerSources(_)
containerSources(sources) ==
    IF sources = <<>> THEN <<>>
    ELSE IF Head(sources).Type = DockerType
         THEN <<Head(sources)>> \o containerSources(Tail(sources))
         ELSE containerSources(Tail(sources))

New(sources) ==
    /\ sSources = containerSources(sources)
    /\ sTailers = [c \in ContainerIDs |-> 0]
    /\ sObjs = [t \in TailerIds |-> NoTailer]
    /\ sShouldStop = FALSE
    /\ sMu = "free"
    /\ sTickerOn = TRUE
    /\ sTick = FALSE
    /\ sNextChan = 0
    /\ sPc = "new"
    /\ sScan = NoScan
    /\ sLast = NoLast
    /\ stPc = "idle"
    /\ stTasks = {}
    /\ stRegistered = {}

ScannerIdle == New(<<>>)

\* The container IDs that have an entry in the registry.
Registered == {c \in ContainerIDs : sTailers[c] # 0}

\* A plausible slip: the tailer is stopped and its entry stays.
stopTailerKeepEntry(tailers, t) == tailers

\* stopTailer, on the registry: the entry of the tailer's container goes.
\* (tailer.Stop(false) is the tailer leaving sObjs, in the action.)
stopTailer(tailers, t) ==
    [tailers EXCEPT ![sObjs[t].cid] = 0]

\* A plausible slip: a tailer is set up for every matching source.
needsTailerAlways(isTailed, tailerShouldStop) == TRUE

\* Lines 119-124 of scan: a tailer is set up when the container has none, or
\* has one that signalled it should stop (and was just stopped).
needsTailer(isTailed, tailerShouldStop) ==
    ~isTailed \/ tailerShouldStop

\* A plausible slip: the pipeline is not asked for its next channel.
NextPipelineChanSame(n) == n

\* s.pp.NextPipelineChan(), the argument of setupTailer: the provider moves
\* on to the channel of its next pipeline.
NextPipelineChan(n) == (n + 1) % NumPipelines

\* A plausible slip: the scan of setup tails from the beginning as well.
setupTailsFromBeginningToo == TRUE

\* Line 206 of setup: s.scan(false).
setupTailsFromBeginning == FALSE

\* Start: setup fails without container sources, or when the docker client
\* cannot be built; otherwise it runs scan(false) and then launches run.
Start ==
    /\ sPc = "new"
    /\ \E clientOk \in BOOLEAN :
          IF Len(sSources) = 0 \/ ~clientOk
          THEN sPc' = "off" /\ sScan' = sScan
          ELSE sPc' = "lock" /\ sScan' = [NoScan EXCEPT !.mode = setupTailsFromBeginning,
                                                        !.setup = TRUE]
    /\ UNCHANGED <<sSources, sTailers, sObjs, sShouldStop, sMu, sTickerOn, sTick,
                   sNextChan, sLast, stPc, stTasks, stRegistered>>
    /\ UNCHANGED sOther

\* The ticker fires; ticker.C holds one tick.
Tick ==
    /\ sTickerOn
    /\ ~sTick
    /\ sTick' = TRUE
    /\ UNCHANGED <<sSources, sTailers, sObjs, sShouldStop, sMu, sTickerOn, sNextChan,
                   sPc, sScan, sLast, stPc, stTasks, stRegistered>>
    /\ UNCHANGED sOther

\* run: takes a tick and calls scan(true).
Run ==
    /\ sPc = "idle"
    /\ sTick
    /\ sTick' = FALSE
    /\ sPc' = "lock"
    /\ sScan' = [NoScan EXCEPT !.mode = TRUE]
    /\ UNCHANGED <<sSources, sTailers, sObjs, sShouldStop, sMu, sTickerOn, sNextChan,
                   sLast, stPc, stTasks, stRegistered>>
    /\ UNCHANGED sOther

\* A plausible slip: scan does not take the mutex.
scanMayEnterUnlocked == TRUE

\* s.mu.Lock() in scan.
scanMayEnter == sMu = "free"

\* A plausible slip: the stop request is not looked at.
scanIsNoopNever == FALSE

\* Lines 105-108 of scan.
scanIsNoop == sShouldStop

\* scan, up to listContainers: takes the mutex; returns at once when a stop was
\* requested; otherwise lists the containers (a failure is the empty list).
ScanLock ==
    /\ sPc = "lock"
    /\ scanMayEnter
    /\ IF scanIsNoop
       THEN /\ sPc' = "idle"
            /\ sScan' = NoScan
            /\ sMu' = sMu
       ELSE /\ sMu' = "scan"
            /\ sPc' = "pairs"
            /\ \E snap \in Snapshots, ok \in BOOLEAN :
                  sScan' = [sScan EXCEPT !.snap = IF ok THEN snap ELSE <<>>,
                                         !.failed = ~ok,
                                         !.i = 1, !.j = 1, !.monitor = {}]
    /\ UNCHANGED <<sSources, sTailers, sObjs, sShouldStop, sTickerOn, sTick, sNextChan,
                   sLast, stPc, stTasks, stRegistered>>
    /\ UNCHANGED sOther

\* The position after (i, j) in the nested loops of scan.
NextPos(i, j) ==
    IF j < Len(sSources) THEN <<i, j + 1>> ELSE <<i + 1, 1>>

PairsLeft == sScan.i <= Len(sScan.snap) /\ Len(sSources) > 0

\* One (container, source) pair of the first loop of scan.
ScanPair ==
    /\ sPc = "pairs"
    /\ PairsLeft
    /\ LET container == sScan.snap[sScan.i]
           source == sSources[sScan.j]
           cid == container.ID
           nxt == NextPos(sScan.i, sScan.j)
           tailer == sTailers[cid]
           isTailed == tailer # 0
           restart == isTailed /\ sObjs[tailer].shouldStop
           \* the registry and the objects after the stopTailer of line 121
           tailers1 == IF restart THEN stopTailer(sTailers, tailer) ELSE sTailers
           objs1 == IF restart THEN [sObjs EXCEPT ![tailer] = NoTailer] ELSE sObjs
           fresh == CHOOSE t \in TailerIds :
                        objs1[t] = NoTailer /\ \A u \in 1..(t - 1) : objs1[u] # NoTailer
       IN  IF sourceShouldMonitorContainer(source, container)
           THEN /\ sScan' = [sScan EXCEPT !.i = nxt[1], !.j = nxt[2],
                                          !.monitor = @ \cup {cid},
                                          !.made = IF needsTailer(isTailed, restart)
                                                   THEN @ \cup {cid} ELSE @]
                /\ IF needsTailer(isTailed, restart)
                   THEN \* setupTailer, with s.pp.NextPipelineChan() as its argument
                        /\ \E t \in TailerIds : objs1[t] = NoTailer
                        /\ sObjs' = [objs1 EXCEPT ![fresh] =
                                        [cid |-> cid, shouldStop |-> FALSE,
                                         fromBeginning |-> sScan.mode, chan |-> sNextChan]]
                        /\ sTailers' = [tailers1 EXCEPT ![cid] = fresh]
                        /\ sNextChan' = NextPipelineChan(sNextChan)
                   ELSE /\ sObjs' = objs1
                        /\ sTailers' = tailers1
                        /\ sNextChan' = sNextChan
           ELSE /\ sScan' = [sScan EXCEPT !.i = nxt[1], !.j = nxt[2]]
                /\ UNCHANGED <<sObjs, sTailers, sNextChan>>
    /\ UNCHANGED <<sSources, sShouldStop, sMu, sTickerOn, sTick, sPc, sLast,
                   stPc, stTasks, stRegistered>>
    /\ UNCHANGED sOther

\* A plausible slip: the second loop stops nothing.
oldContainersNone(monitor) == {}

\* Lines 132-136 of scan: the registered containers that are not to be monitored.
oldContainers(monitor) == {c \in Registered : c \notin monitor}

\* The second loop of scan: stops the tailers of the old containers.
ScanSweep ==
    /\ sPc = "pairs"
    /\ ~PairsLeft
    /\ LET old == oldContainers(sScan.monitor)
       IN  /\ sObjs' = [t \in TailerIds |->
                           IF \E c \in old : sTailers[c] = t THEN NoTailer ELSE sObjs[t]]
           /\ sTailers' = [c \in ContainerIDs |->
                           IF c \in old THEN stopTailer(sTailers, sTailers[c])[c]
                           ELSE sTailers[c]]
    /\ sPc' = "ret"
    /\ UNCHANGED <<sSources, sShouldStop, sMu, sTickerOn, sTick, sNextChan, sScan, sLast,
                   stPc, stTasks, stRegistered>>
    /\ UNCHANGED sOther

\* scan returns: the deferred Unlock runs; after the scan of setup, Start
\* launches run.
ScanReturn ==
    /\ sPc = "ret"
    /\ sMu' = "free"
    /\ sPc' = "idle"
    /\ sScan' = NoScan
    /\ sLast' = [valid |-> TRUE, snap |-> sScan.snap, failed |-> sScan.failed,
                 ids |-> Registered,
                 repeated |-> sLast.valid /\ sLast.snap = sScan.snap,
                 sameIds |-> sLast.ids = Registered]
    /\ UNCHANGED <<sSources, sTailers, sObjs, sShouldStop, sTickerOn, sTick, sNextChan,
                   stPc, stTasks, stRegistered>>
    /\ UNCHANGED sOther

\* A running tailer notices by itself that it should stop (the container exited).
TailerSignal(t) ==
    /\ sObjs[t] # NoTailer
    /\ ~sObjs[t].shouldStop
    /\ sObjs' = [sObjs EXCEPT ![t].shouldStop = TRUE]
    /\ UNCHANGED <<sSources, sTailers, sShouldStop, sMu, sTickerOn, sTick, sNextChan,
                   sPc, sScan, sLast, stPc, stTasks, stRegistered>>
    /\ UNCHANGED sOther

\* Stop, up to wg.Wait(): takes the mutex, stops the ticker, sets shouldStop,
\* launches one stop goroutine per registered tailer and deletes the entries.
StopBegin ==
    /\ stPc = "idle"
    /\ sMu = "free"
    /\ sMu' = "stop"
    /\ sTickerOn' = FALSE
    /\ sShouldStop' = TRUE
    /\ stTasks' = {sTailers[c] : c \in Registered}
    /\ stRegistered' = {sTailers[c] : c \in Registered}
    /\ sTailers' = [c \in ContainerIDs |-> 0]
    /\ stPc' = "wait"
    /\ UNCHANGED <<sSources, sObjs, sTick, sNextChan, sPc, sScan, sLast>>
    /\ UNCHANGED sOther

\* One stop goroutine: t.Stop(true), then wg.Done().
StopTask(t) ==
    /\ t \in stTasks
    /\ sObjs' = [sObjs EXCEPT ![t] = NoTailer]
    /\ stTasks' = stTasks \ {t}
    /\ UNCHANGED <<sSources, sTailers, sShouldStop, sMu, sTickerOn, sTick, sNextChan,
                   sPc, sScan, sLast, stPc, stRegistered>>
    /\ UNCHANGED sOther

\* A plausible slip: Stop does not wait for its goroutines.
waitGroupDoneAlways == TRUE

\* wg.Wait() can return.
waitGroupDone == stTasks = {}

\* wg.Wait() returns.
StopWait ==
    /\ stPc = "wait"
    /\ waitGroupDone
    /\ stPc' = "unlock"
    /\ UNCHANGED <<sSources, sTailers, sObjs, sShouldStop, sMu, sTickerOn, sTick,
                   sNextChan, sPc, sScan, sLast, stTasks, stRegistered>>
    /\ UNCHANGED sOther

\* s.mu.Unlock(), and Stop returns.
StopReturn ==
    /\ stPc = "unlock"
    /\ sMu' = "free"
    /\ stPc' = "idle"
    /\ UNCHANGED <<sSources, sTailers, sObjs, sShouldStop, sTickerOn, sTick, sNextChan,
                   sPc, sScan, sLast, stTasks, stRegistered>>
    /\ UNCHANGED sOther

(***************************************************************************)
(* eventFanout                                                             *)
(***************************************************************************)
\* Setup calls made on one instance.
MaxSetups == 3

\* eventOutput objects made (successful Suscribe calls).
MaxOutputs == 2

\* Items the producer sends.
MaxItems == 3

\* dispatch goroutines alive at once.
MaxLoops == 2

\* Callers blocked in Stop at once.
MaxStopWaiters == 1

\* make(chan error, 2) in Suscribe.
ErrorBufferSize == 2

\* make(chan struct{}, 1) in Setup.
StopChanSize == 1

Names == {"a", "b"}

LoopIds == 1..MaxLoops

NoHolder == 0
Caller == -1

ZeroConfig == [WriteTimeout |-> 0, OutputBufferSize |-> 0, Name |-> ""]

GoodConfig == [WriteTimeout |-> 1, OutputBufferSize |-> 1, Name |-> "f"]

\* The configs handed to Setup: a good one, and the good one with one field
\* zero, negative or empty.
Configs ==
    { GoodConfig,
      [GoodConfig EXCEPT !.WriteTimeout = 0],
      [GoodConfig EXCEPT !.WriteTimeout = -1],
      [GoodConfig EXCEPT !.OutputBufferSize = 0],
      [GoodConfig EXCEPT !.OutputBufferSize = -1],
      [GoodConfig EXCEPT !.Name = ""] }

\* The errors that travel on an error output.
ErrEOF == [k |-> "EOF", n |-> 0]
ErrWriteTimeout == [k |-> "ErrWriteTimeout", n |-> 0]
ErrItem(n) == [k |-> "item", n |-> n]

NoItem == [kind |-> "none", n |-> 0]

IdleLoop == [pc |-> "none", item |-> NoItem, todo |-> {}, bad |-> {}]

NoSetup == [pc |-> "idle", arg |-> ZeroConfig, err |-> FALSE, chans |-> 0,
            cfg |-> ZeroConfig, gen |-> 0, stop |-> 0,
            listeners |-> [n \in Names |-> 0]]

\* The zero value of eventFanout.
FanoutZero ==
    /\ eCfg = ZeroConfig
    /\ eGen = 0
    /\ eSetups = 0
    /\ eSetup = NoSetup
    /\ eListeners = [n \in Names |-> 0]
    /\ eOuts = <<>>
    /\ eRunning = FALSE
    /\ eStop = 0
    /\ eStopWaiters = 0
    /\ eLock = NoHolder
    /\ eReaders = {}
    /\ eLoops = [d \in LoopIds |-> IdleLoop]
    /\ ePublished = <<>>
    /\ ePanic = FALSE
    /\ eCall = "none"

\* The configs of the instances that SpecFanout follows.
FanoutConfigs == {GoodConfig}

\* The instance as the first Setup(cfg) leaves it, for a cfg it accepts.
FanoutSetUp(cfg) ==
    /\ eCfg = cfg
    /\ eGen = 1
    /\ eSetups = 1
    /\ eSetup = NoSetup
    /\ eListeners = [n \in Names |-> 0]
    /\ eOuts = <<>>
    /\ eRunning = FALSE
    /\ eStop = 0
    /\ eStopWaiters = 0
    /\ eLock = NoHolder
    /\ eReaders = {}
    /\ eLoops = [d \in LoopIds |-> IdleLoop]
    /\ ePublished = <<>>
    /\ ePanic = FALSE
    /\ eCall = "none"

Subscribed == {n \in Names : eListeners[n] # 0}

LockFree == eLock = NoHolder /\ eReaders = {}

\* No dispatch goroutine exists and no call is in progress.
Quiescent ==
    /\ \A d \in LoopIds : eLoops[d].pc = "none"
    /\ eLock = NoHolder
    /\ eStopWaiters = 0

\* The instance can be called: it did not panic and no Setup is returning.
Usable == ~ePanic /\ eSetup.pc = "idle"

\* What the messages of Setup promise ("must be higher than 0"): non-positive
\* values are refused.
setupRefusesNonPositive(cfg) ==
    cfg.WriteTimeout <= 0 \/ cfg.OutputBufferSize <= 0 \/ cfg.Name = ""

\* Lines 24-32 of Setup: the configs it refuses.
setupRefuses(cfg) ==
    cfg.WriteTimeout = 0 \/ cfg.OutputBufferSize = 0 \/ cfg.Name = ""

\* Setup(cfg).  It is called on an instance at rest: before first use, or
\* to restart it after a stop; SpecSetup follows these calls, and SpecFanout
\* follows an instance from the return of a successful Setup on.
Setup(cfg) ==
    /\ Usable
    /\ Quiescent
    /\ eSetups < MaxSetups
    /\ eSetups' = eSetups + 1
    /\ IF setupRefuses(cfg)
       THEN /\ eSetup' = [pc |-> "ret", arg |-> cfg, err |-> TRUE, chans |-> 0,
                          cfg |-> eCfg, gen |-> eGen, stop |-> eStop,
                          listeners |-> eListeners]
            /\ UNCHANGED <<eCfg, eGen, eStop, eListeners>>
       ELSE /\ eCfg' = cfg
            /\ eGen' = eGen + 1
            /\ eStop' = 0
            /\ eListeners' = [n \in Names |-> 0]
            /\ eSetup' = [pc |-> "ret", arg |-> cfg, err |-> FALSE, chans |-> eGen + 1,
                          cfg |-> eCfg, gen |-> eGen, stop |-> eStop,
                          listeners |-> eListeners]
    /\ UNCHANGED <<eOuts, eRunning, eStopWaiters, eLock, eReaders, eLoops, ePublished, ePanic>>
    /\ UNCHANGED <<eCall, eOther>>

\* Setup(cfg) on an instance that is in use (dispatch goroutines alive, with
\* or without listeners in the mapping): the restart after a Stop that has
\* not been processed yet.  Lines 33-40: under the lock the fields are replaced;
\* nothing is closed.  The instance is not followed further once its channels
\* were replaced under live goroutines: the call does not return here, and
\* only the goroutines finish what they were doing.
SetupInUse(cfg) ==
    /\ Usable
    /\ ~Quiescent
    /\ LockFree
    /\ eStopWaiters = 0
    /\ eSetups < MaxSetups
    /\ ~setupRefuses(cfg)
    /\ eSetups' = eSetups + 1
    /\ eCfg' = cfg
    /\ eGen' = eGen + 1
    /\ eStop' = 0
    /\ eListeners' = [n \in Names |-> 0]
    /\ eSetup' = [pc |-> "inuse", arg |-> cfg, err |-> FALSE, chans |-> eGen + 1,
                  cfg |-> eCfg, gen |-> eGen, stop |-> eStop,
                  listeners |-> eListeners]
    /\ UNCHANGED <<eOuts, eRunning, eStopWaiters, eLock, eReaders, eLoops, ePublished, ePanic>>
    /\ UNCHANGED <<eCall, eOther>>

\* The caller of Setup has its results.
SetupReturn ==
    /\ eSetup.pc = "ret"
    /\ eSetup' = NoSetup
    /\ UNCHANGED <<eCfg, eGen, eSetups, eListeners, eOuts, eRunning, eStop, eStopWaiters,
                   eLock, eReaders, eLoops, ePublished, ePanic>>
    /\ UNCHANGED <<eCall, eOther>>

\* What a send bounded by time.After(writeTimeout) can do on a buffer: it is
\* done at once when there is room; when there is none it ends by timeout
\* (unless a reader makes room first); a non-positive timeout can win at once.
SendOutcomes(buffer, capacity, writeTimeout) ==
    (IF Len(buffer) < capacity THEN {"sent"} ELSE {})
        \cup (IF Len(buffer) >= capacity \/ writeTimeout <= 0 THEN {"timeout"} ELSE {})

\* A plausible slip: close does not send the error first.
closedOutputSilently(out, err, outcome) ==
    [out EXCEPT !.err = IF @ = <<>> THEN <<>> ELSE <<@[Len(@)]>>,
                !.data = <<>>,
                !.closed = TRUE,
                !.closes = @ + 1,
                !.since = 0, !.delivered = <<>>]

\* eventOutput.close(err): sendError(err), then both channels are closed.
\* Of a closed output the model keeps the value its consumer reads last from
\* the error output before it sees it closed: err when it was sent, and else
\* the newest error that was waiting there.  What else was buffered, and the
\* record of what was enqueued, are dropped: the fanout has no reference to
\* the output any more.
closedOutput(out, err, outcome) ==
    [out EXCEPT !.err = IF outcome = "sent" THEN <<err>>
                        ELSE IF @ = <<>> THEN <<>> ELSE <<@[Len(@)]>>,
                !.data = <<>>,
                !.closed = TRUE,
                !.closes = @ + 1,
                !.since = 0, !.delivered = <<>>]

\* The outcomes sendError can have on an output.
ErrorOutcomes(out) == SendOutcomes(out.err, ErrorBufferSize, out.writeTimeout)

\* The outcomes sendData can have on an output.
DataOutcomes(out) == SendOutcomes(out.data, out.size, out.writeTimeout)

FreeLoops == {d \in LoopIds : eLoops[d].pc = "none"}

\* A plausible slip, and the fix: a loop is launched only when none exists.
suscribeLaunchesIfNoLoop == FreeLoops = LoopIds

\* Line 53 of Suscribe: a dispatch goroutine is launched when running is false.
suscribeLaunches == ~eRunning

\* Line 48 of Suscribe: the name is in the mapping, the call is an error.
suscribeFails(name) == eListeners[name] # 0

\* Lines 64-66 of UnsuscribeWithError: the name is not in the mapping, the
\* call is an error.
unsuscribeFails(name) == eListeners[name] = 0

\* Suscribe(name), the fanout's side of the call.
suscribe(name) ==
    /\ Usable
    /\ eGen > 0
    /\ LockFree
    /\ IF suscribeFails(name)
       THEN \* already suscribed: an error, nothing else
            UNCHANGED <<eListeners, eOuts, eLoops, ePanic>>
       ELSE IF eCfg.OutputBufferSize < 0
       THEN \* make(chan, n) with a negative n panics
            /\ ePanic' = TRUE
            /\ UNCHANGED <<eListeners, eOuts, eLoops>>
       ELSE /\ Len(eOuts) < MaxOutputs
            /\ suscribeLaunches => FreeLoops # {}
            /\ eOuts' = Append(eOuts,
                   [name |-> name, data |-> <<>>, err |-> <<>>, closed |-> FALSE,
                    size |-> eCfg.OutputBufferSize, writeTimeout |-> eCfg.WriteTimeout,
                    since |-> Len(ePublished), delivered |-> <<>>,
                    timedItem |-> 0, late |-> FALSE, evicted |-> FALSE, closes |-> 0])
            /\ eListeners' = [eListeners EXCEPT ![name] = Len(eOuts) + 1]
            /\ eLoops' = IF suscribeLaunches
                         THEN [eLoops EXCEPT ![CHOOSE d \in FreeLoops :
                                                  \A x \in FreeLoops : d <= x] =
                                                  [IdleLoop EXCEPT !.pc = "spawned"]]
                         ELSE eLoops
            /\ ePanic' = ePanic
    /\ UNCHANGED <<eCfg, eGen, eSetups, eSetup, eRunning, eStop, eStopWaiters, eLock,
                   eReaders, ePublished>>
    /\ UNCHANGED eOther

\* Suscribe(name).
Suscribe(name) == suscribe(name) /\ UNCHANGED eCall

\* Suscribe(name), with the error it returns on record.
SuscribeCall(name) ==
    /\ suscribe(name)
    /\ eCall' = IF suscribeFails(name) THEN "Suscribe" ELSE "none"

\* Lines 62-69 of UnsuscribeWithError, by `who` (Caller or a dispatch loop),
\* up to the send on stopChan: the listeners and the outputs after it.
\* Nothing changes for a name that is not suscribed.
unsuscribedListeners(name) ==
    IF eListeners[name] = 0 THEN eListeners ELSE [eListeners EXCEPT ![name] = 0]

unsuscribedOuts(name, err, outcome, byLoop) ==
    IF eListeners[name] = 0 THEN eOuts
    ELSE [eOuts EXCEPT ![eListeners[name]] =
             [closedOutput(@, err, outcome) EXCEPT !.evicted = byLoop]]

\* A plausible slip: the mapping is found empty without asking whether the
\* name was in it.
unsuscribeStopsUnknownToo(name) ==
    /\ eRunning
    /\ Subscribed \ {name} = {}

\* Line 69 of UnsuscribeWithError: the removal emptied the mapping of a
\* running instance, so a stop is signalled.
unsuscribeStops(name) ==
    /\ eListeners[name] # 0
    /\ eRunning
    /\ Subscribed \ {name} = {}

\* Unsuscribe(name), which is UnsuscribeWithError(name, io.EOF), by a caller.
\* When the stop signal cannot be buffered the caller stays blocked in the
\* send, holding the lock.
unsuscribe(name) ==
    /\ Usable
    /\ eGen > 0
    /\ LockFree
    /\ \E outcome \in (IF eListeners[name] = 0 THEN {"sent"}
                       ELSE ErrorOutcomes(eOuts[eListeners[name]])) :
          eOuts' = unsuscribedOuts(name, ErrEOF, outcome, FALSE)
    /\ eListeners' = unsuscribedListeners(name)
    /\ IF unsuscribeStops(name)
       THEN IF eStop < StopChanSize
            THEN eStop' = eStop + 1 /\ eLock' = eLock
            ELSE eStop' = eStop /\ eLock' = Caller
       ELSE eStop' = eStop /\ eLock' = eLock
    /\ UNCHANGED <<eCfg, eGen, eSetups, eSetup, eRunning, eStopWaiters, eReaders, eLoops,
                   ePublished, ePanic>>
    /\ UNCHANGED eOther

\* Unsuscribe(name).
Unsuscribe(name) == unsuscribe(name) /\ UNCHANGED eCall

\* Unsuscribe(name), with the error it returns on record.
UnsuscribeCall(name) ==
    /\ unsuscribe(name)
    /\ eCall' = IF unsuscribeFails(name) THEN "Unsuscribe" ELSE "none"

\* The caller blocked in UnsuscribeWithError gets its signal into stopChan,
\* unlocks and returns.
UnsuscribeResume ==
    /\ ~ePanic
    /\ eLock = Caller
    /\ eStop < StopChanSize
    /\ eStop' = eStop + 1
    /\ eLock' = NoHolder
    /\ UNCHANGED <<eCfg, eGen, eSetups, eSetup, eListeners, eOuts, eRunning, eStopWaiters,
                   eReaders, eLoops, ePublished, ePanic>>
    /\ UNCHANGED <<eCall, eOther>>

\* Stop(): a send on stopChan; the caller blocks while the buffer is full.
Stop ==
    /\ Usable
    /\ eGen > 0
    /\ IF eStop < StopChanSize
       THEN eStop' = eStop + 1 /\ eStopWaiters' = eStopWaiters
       ELSE /\ eStopWaiters < MaxStopWaiters
            /\ eStop' = eStop
            /\ eStopWaiters' = eStopWaiters + 1
    /\ UNCHANGED <<eCfg, eGen, eSetups, eSetup, eListeners, eOuts, eRunning, eLock,
                   eReaders, eLoops, ePublished, ePanic>>
    /\ UNCHANGED <<eCall, eOther>>

\* A caller blocked in Stop gets its signal into stopChan and returns.
StopResume ==
    /\ ~ePanic
    /\ eStopWaiters > 0
    /\ eStop < StopChanSize
    /\ eStop' = eStop + 1
    /\ eStopWaiters' = eStopWaiters - 1
    /\ UNCHANGED <<eCfg, eGen, eSetups, eSetup, eListeners, eOuts, eRunning, eLock,
                   eReaders, eLoops, ePublished, ePanic>>
    /\ UNCHANGED <<eCall, eOther>>

\* dispatch, lines 76-78: the goroutine marks the instance running.
LoopStart(d) ==
    /\ ~ePanic
    /\ eLoops[d].pc = "spawned"
    /\ LockFree
    /\ eRunning' = TRUE
    /\ eLoops' = [eLoops EXCEPT ![d].pc = "select"]
    /\ UNCHANGED <<eCfg, eGen, eSetups, eSetup, eListeners, eOuts, eStop, eStopWaiters,
                   eLock, eReaders, ePublished, ePanic>>
    /\ UNCHANGED <<eCall, eOther>>

\* dispatch, line 84: the select receives from stopChan.
LoopTakeStop(d) ==
    /\ ~ePanic
    /\ eLoops[d].pc = "select"
    /\ eStop > 0
    /\ eStop' = eStop - 1
    /\ eLoops' = [eLoops EXCEPT ![d].pc = "stop"]
    /\ UNCHANGED <<eCfg, eGen, eSetups, eSetup, eListeners, eOuts, eRunning, eStopWaiters,
                   eLock, eReaders, ePublished, ePanic>>
    /\ UNCHANGED <<eCall, eOther>>

\* dispatch, lines 85-92: every listener is closed with io.EOF and removed,
\* running becomes false and the goroutine returns.
LoopStop(d) ==
    /\ ~ePanic
    /\ eLoops[d].pc = "stop"
    /\ LockFree
    /\ \E timedOut \in SUBSET Subscribed :
          /\ \A n \in Subscribed :
                (IF n \in timedOut THEN "timeout" ELSE "sent")
                    \in ErrorOutcomes(eOuts[eListeners[n]])
          /\ eOuts' = [o \in 1..Len(eOuts) |->
                          IF \E n \in Subscribed : eListeners[n] = o
                          THEN closedOutput(eOuts[o], ErrEOF,
                                   IF eOuts[o].name \in timedOut THEN "timeout" ELSE "sent")
                          ELSE eOuts[o]]
    /\ eListeners' = [n \in Names |-> 0]
    /\ eRunning' = FALSE
    /\ eLoops' = [eLoops EXCEPT ![d] = IdleLoop]
    /\ UNCHANGED <<eCfg, eGen, eSetups, eSetup, eStop, eStopWaiters, eLock, eReaders,
                   ePublished, ePanic>>
    /\ UNCHANGED <<eCall, eOther>>

\* dispatch, lines 93 and 103: the select receives the producer's next item,
\* a data item or an error item.
LoopTakeItem(d, kind) ==
    /\ ~ePanic
    /\ eLoops[d].pc = "select"
    /\ Len(ePublished) < MaxItems
    /\ ePublished' = Append(ePublished, kind)
    /\ eLoops' = [eLoops EXCEPT ![d].pc = "rlock",
                                ![d].item = [kind |-> kind, n |-> Len(ePublished) + 1]]
    /\ UNCHANGED <<eCfg, eGen, eSetups, eSetup, eListeners, eOuts, eRunning, eStop,
                   eStopWaiters, eLock, eReaders, ePanic>>
    /\ UNCHANGED <<eCall, eOther>>

\* dispatch, lines 94 and 104: RLock, and the range over the listeners begins;
\* with no listener the round is over at once.
LoopRLock(d) ==
    /\ ~ePanic
    /\ eLoops[d].pc = "rlock"
    /\ eLock = NoHolder
    /\ IF Subscribed = {}
       THEN /\ eLoops' = [eLoops EXCEPT ![d].pc = "select", ![d].item = NoItem]
            /\ eReaders' = eReaders
       ELSE /\ eLoops' = [eLoops EXCEPT ![d].pc = "bcast", ![d].todo = Subscribed]
            /\ eReaders' = eReaders \cup {d}
    /\ UNCHANGED <<eCfg, eGen, eSetups, eSetup, eListeners, eOuts, eRunning, eStop,
                   eStopWaiters, eLock, ePublished, ePanic>>
    /\ UNCHANGED <<eCall, eOther>>

\* A plausible slip: the round is given up at the first timeout.
restOfRoundNoneAfterTimeout(todo, name, outcome) ==
    IF outcome = "timeout" THEN {} ELSE todo \ {name}

\* Lines 95-100: after a timeout the range goes on with the other listeners.
restOfRound(todo, name, outcome) == todo \ {name}

\* The output after sendData / sendError of the item, with its outcome.
outputAfterSend(out, item, outcome) ==
    [out EXCEPT
        !.data = IF outcome = "sent" /\ item.kind = "data" THEN Append(@, item.n) ELSE @,
        !.err = IF outcome = "sent" /\ item.kind = "error" THEN Append(@, ErrItem(item.n)) ELSE @,
        !.delivered = IF outcome = "sent" THEN Append(@, item.n) ELSE @,
        !.timedItem = IF outcome = "timeout" /\ @ = 0 THEN item.n ELSE @,
        !.late = @ \/ (out.timedItem # 0 /\ item.n > out.timedItem)]

\* dispatch, lines 95-102 and 105-112: the item is sent to one listener of
\* the range; a timeout makes it a bad listener; after the last one RUnlock.
LoopSend(d, name) ==
    /\ ~ePanic
    /\ eLoops[d].pc = "bcast"
    /\ name \in eLoops[d].todo
    /\ LET l == eLoops[d]
           o == eListeners[name]
           outcomes == IF l.item.kind = "data" THEN DataOutcomes(eOuts[o])
                       ELSE ErrorOutcomes(eOuts[o])
       IN  \E outcome \in outcomes :
              LET todo == restOfRound(l.todo, name, outcome)
                  bad == IF outcome = "timeout" THEN l.bad \cup {name} ELSE l.bad
              IN  /\ eOuts' = [eOuts EXCEPT ![o] = outputAfterSend(@, l.item, outcome)]
                  /\ IF todo = {}
                     THEN /\ eReaders' = eReaders \ {d}
                          /\ eLoops' = [eLoops EXCEPT ![d] =
                                 [l EXCEPT !.pc = IF bad = {} THEN "select" ELSE "evict",
                                           !.item = IF bad = {} THEN NoItem ELSE @,
                                           !.todo = {}, !.bad = bad]]
                     ELSE /\ eReaders' = eReaders
                          /\ eLoops' = [eLoops EXCEPT ![d] =
                                 [l EXCEPT !.todo = todo, !.bad = bad]]
    /\ UNCHANGED <<eCfg, eGen, eSetups, eSetup, eListeners, eRunning, eStop, eStopWaiters,
                   eLock, ePublished, ePanic>>
    /\ UNCHANGED <<eCall, eOther>>

\* dispatch, lines 118-122: UnsuscribeWithError(name, err) for one bad
\* listener.  When the stop signal cannot be buffered the goroutine stays
\* blocked in the send, holding the lock.
LoopEvict(d, name) ==
    /\ ~ePanic
    /\ eLoops[d].pc = "evict"
    /\ name \in eLoops[d].bad
    /\ LockFree
    /\ \E outcome \in (IF eListeners[name] = 0 THEN {"sent"}
                       ELSE ErrorOutcomes(eOuts[eListeners[name]])) :
          eOuts' = unsuscribedOuts(name, ErrWriteTimeout, outcome, TRUE)
    /\ eListeners' = unsuscribedListeners(name)
    /\ LET bad == eLoops[d].bad \ {name}
           blocked == unsuscribeStops(name) /\ eStop >= StopChanSize
       IN  /\ eStop' = IF unsuscribeStops(name) /\ ~blocked THEN eStop + 1 ELSE eStop
           /\ eLock' = IF blocked THEN d ELSE eLock
           /\ eLoops' = [eLoops EXCEPT ![d].bad = bad,
                            ![d].item = IF ~blocked /\ bad = {} THEN NoItem ELSE @,
                            ![d].pc = IF blocked THEN "evictblocked"
                                      ELSE IF bad = {} THEN "select" ELSE "evict"]
    /\ UNCHANGED <<eCfg, eGen, eSetups, eSetup, eRunning, eStopWaiters, eReaders,
                   ePublished, ePanic>>
    /\ UNCHANGED <<eCall, eOther>>

\* The dispatch goroutine blocked in UnsuscribeWithError gets its signal into
\* stopChan, unlocks and goes on.
LoopEvictResume(d) ==
    /\ ~ePanic
    /\ eLoops[d].pc = "evictblocked"
    /\ eStop < StopChanSize
    /\ eStop' = eStop + 1
    /\ eLock' = NoHolder
    /\ eLoops' = [eLoops EXCEPT ![d].pc = IF eLoops[d].bad = {} THEN "select" ELSE "evict",
                                ![d].item = IF eLoops[d].bad = {} THEN NoItem ELSE @]
    /\ UNCHANGED <<eCfg, eGen, eSetups, eSetup, eListeners, eOuts, eRunning, eStopWaiters,
                   eReaders, ePublished, ePanic>>
    /\ UNCHANGED <<eCall, eOther>>

\* A consumer receives from its data output.  (What it still reads after the
\* output was closed changes nothing the fanout reads, and is left out.)
ConsumeData(o) ==
    /\ ~ePanic
    /\ o \in 1..Len(eOuts)
    /\ ~eOuts[o].closed
    /\ eOuts[o].data # <<>>
    /\ eOuts' = [eOuts EXCEPT ![o].data = Tail(@)]
    /\ UNCHANGED <<eCfg, eGen, eSetups, eSetup, eListeners, eRunning, eStop, eStopWaiters,
                   eLock, eReaders, eLoops, ePublished, ePanic>>
    /\ UNCHANGED <<eCall, eOther>>

\* A consumer receives from its error output, as long as it is open.
ConsumeError(o) ==
    /\ ~ePanic
    /\ o \in 1..Len(eOuts)
    /\ ~eOuts[o].closed
    /\ eOuts[o].err # <<>>
    /\ eOuts' = [eOuts EXCEPT ![o].err = Tail(@)]
    /\ UNCHANGED <<eCfg, eGen, eSetups, eSetup, eListeners, eRunning, eStop, eStopWaiters,
                   eLock, eReaders, eLoops, ePublished, ePanic>>
    /\ UNCHANGED <<eCall, eOther>>

(***************************************************************************)
(* Claims about the Scanner                                                *)
(***************************************************************************)
\* The container IDs of a snapshot that some source asks to monitor.
ShouldBeTailed(snap, sources) ==
    {snap[i].ID : i \in {k \in 1..Len(snap) :
                            \E j \in 1..Len(sources) :
                                sourceShouldMonitorContainer(sources[j], snap[k])}}

\* A scan in progress always finds a free tailer object: MaxTailers does not
\* cut any scan short.
ScanNeverStarved ==
    (sPc = "pairs" /\ PairsLeft) => ENABLED ScanPair

\* C1: when a scan returns, the registry holds exactly the containers of the
\* snapshot that some source matches (none after a lister failure), each with
\* a live tailer of its own, whatever the registry held before; a scan that
\* repeats the snapshot of the previous one leaves the same set.
C1_ScanConverges ==
    /\ sPc = "ret" =>
          /\ ~sShouldStop
          /\ Registered = ShouldBeTailed(sScan.snap, sSources)
          /\ \A c \in Registered : sObjs[sTailers[c]].cid = c
          /\ sScan.failed => (Registered = {} /\ Live = {})
    /\ (sLast.valid /\ sLast.repeated) => sLast.sameIds

\* A scan that found two containers registered returns with one of them only.
C1_Witness ==
    /\ sPc = "ret"
    /\ sLast.valid
    /\ sLast.ids = {"c1", "c2"}
    /\ sScan.snap = <<CtrC, CtrA>>
    /\ Registered = {"c1"}

\* A scan after a lister failure empties a registry that held two tailers.
C1_WitnessListerFailure ==
    /\ sPc = "ret"
    /\ sScan.failed
    /\ sLast.ids = {"c1", "c2"}
    /\ Registered = {}

\* C2: no container ID ever has two live tailers, and whenever the mutex is
\* free every live tailer is the one the registry holds for its container.
C2_OneLiveTailerPerContainer ==
    /\ \A t \in Live, u \in Live : sObjs[t].cid = sObjs[u].cid => t = u
    /\ sMu = "free" => \A t \in Live : sTailers[sObjs[t].cid] = t

\* After a scan in which two sources matched container c1, whose tailer had
\* signalled that it should stop: c1 has its one tailer, a fresh one.
C2_Witness ==
    /\ sMu = "free"
    /\ Len(sSources) = 2
    /\ sLast.valid
    /\ sLast.repeated
    /\ sTailers["c1"] # 0
    /\ sObjs[sTailers["c1"]].fromBeginning
    /\ Cardinality(Live) = 2

\* C3: Stop is about to return only when every tailer that was registered
\* when it took the mutex has been stopped and the registry is empty, and
\* the bodies of scan and Stop never run at the same time.
C3_StopJoinsAllTailers ==
    /\ stPc = "unlock" =>
          /\ \A t \in stRegistered : sObjs[t] = NoTailer
          /\ stTasks = {}
          /\ Registered = {}
    /\ ~(sPc \in {"pairs", "ret"} /\ stPc \in {"wait", "unlock"})

\* Stop returns after it stopped two tailers.
C3_Witness ==
    /\ stPc = "unlock"
    /\ Cardinality(stRegistered) = 2
    /\ Live = {}

(***************************************************************************)
(* SpecMatch: the match predicate applied to drawn sources and containers  *)
(***************************************************************************)
ImgNginx == <<"n">>
ImgRedis == <<"r">>

MatchImages == {EmptyStr, ImgNginx}

\* Label maps a drawn container may carry.
MatchLabelMaps ==
    { {},
      {<<<<"a">>, <<"b">>>>},
      {<<<<"a">>, <<"a">>>>},
      {<<<<"a">>, EmptyStr>>, <<<<"b">>, <<"a">>>>},
      {<<<<"a", ":", "b">>, <<"a">>>>},
      {<<EmptyStr, <<"b">>>>} }

MatchInit ==
    /\ mSource \in [Image : MatchImages, Label : StringsUpTo(MaxLabelLen)]
    /\ mContainer \in [ID : {"c1"}, Image : {ImgNginx, ImgRedis}, Labels : MatchLabelMaps]
    /\ mPc = "call"
    /\ mResult = FALSE

Match ==
    /\ mPc = "call"
    /\ mPc' = "done"
    /\ mResult' = sourceShouldMonitorContainer(mSource, mContainer)
    /\ UNCHANGED <<mSource, mContainer>>
    /\ UNCHANGED mOther

\* The scan that waits for the mutex goes on, after a stop was requested.
ScanEntersAfterStop == sPc = "lock" /\ sShouldStop /\ sPc' # "lock"

\* C17: once Stop has set shouldStop, a scan that gets the mutex returns at
\* once: it lists nothing, sets up no tailer and stops none; no scan is under
\* way while shouldStop is set, and after Stop returned the registry is empty
\* and no tailer is live.
C17_NoScanAfterStop ==
    /\ [][ScanEntersAfterStop =>
             (sPc' = "idle" /\ UNCHANGED <<sTailers, sObjs, sNextChan, sLast, sMu>>)]_vars
    /\ [](sShouldStop => sPc \notin {"pairs", "ret"})
    /\ []((sShouldStop /\ stPc = "idle") => (Registered = {} /\ Live = {}))

\* C17 happens: a periodic scan waits for the mutex while Stop, which found
\* tailers registered, waits for their stop goroutines.
C17_Witness ==
    /\ sPc = "lock"
    /\ sScan.mode
    /\ sShouldStop
    /\ stPc = "wait"
    /\ stTasks # {}

\* The tailer t has its entry in the registry.
HasEntry(t) == sTailers[sObjs[t].cid] = t

\* Every entry of the registry is the entry of a live tailer.
EntriesAreLive ==
    \A c \in Registered : sObjs[sTailers[c]] # NoTailer /\ sObjs[sTailers[c]].cid = c

\* C18 as stated: a tailer is stopped before its entry is removed, in scan
\* and in Stop: a tailer that is not stopped yet has its entry.
C18_StoppedBeforeRemoved ==
    /\ EntriesAreLive
    /\ \A t \in Live : HasEntry(t)

\* C18 as the code has it: a tailer that is not stopped yet has its entry,
\* or Stop has deleted the entry and, holding the mutex, waits for the
\* goroutine that stops the tailer.
C18_StoppedBeforeRemovedOrJoined ==
    /\ EntriesAreLive
    /\ \A t \in Live :
          \/ HasEntry(t)
          \/ t \in stTasks /\ stPc = "wait" /\ sMu = "stop"

\* C18 happens: Stop has deleted the entries of several tailers; one of them
\* is stopped and another is not yet.
C18_Witness ==
    /\ stPc = "wait"
    /\ stTasks # {}
    /\ stTasks # stRegistered
    /\ \E t \in stTasks : sObjs[t] # NoTailer /\ ~HasEntry(t)

\* The tailers set up in this step.
SetUpNow == {t \in TailerIds : sObjs[t] = NoTailer /\ sObjs'[t] # NoTailer}

\* A scan is called in this step: by setup, or by run.
ScanCalled == sPc # "lock" /\ sPc' = "lock"

C19_WitnessNoSource ==
    Len(sSources) = 0 /\ sPc = "off" /\ sTick

\* The pair of the scan under way matches, and what it finds registered.
PairMatches ==
    /\ sPc = "pairs"
    /\ PairsLeft
    /\ sourceShouldMonitorContainer(sSources[sScan.j], sScan.snap[sScan.i])

PairContainer == sScan.snap[sScan.i].ID

\* The tailers started in this step: in a free place, or in the place of one
\* that had signalled stop (no other step takes the signal back).
StartedNow ==
    {t \in TailerIds :
        /\ sObjs'[t] # NoTailer
        /\ sObjs[t] = NoTailer \/ (sObjs[t].shouldStop /\ ~sObjs'[t].shouldStop)}

\* NextPipelineChan was called once in this step.
ChanTaken == sNextChan' = (sNextChan + 1) % NumPipelines

\* One step of a scan on a matched container: a registered tailer that
\* signalled stop is stopped and replaced by one fresh tailer; one that did
\* not is kept; a tailer is set up for a container that has none; and
\* NextPipelineChan is called once when a tailer is set up and not otherwise.
PairStepAsClaimed ==
    /\ (PairMatches /\ sPc' = "pairs" /\ sScan' # sScan) =>
          LET cid == PairContainer
              old == sTailers[cid]
          IN  IF old # 0 /\ ~sObjs[old].shouldStop
              THEN /\ sTailers'[cid] = old
                   /\ UNCHANGED <<sObjs, sNextChan>>
              ELSE /\ Cardinality(StartedNow) = 1
                   /\ sTailers'[cid] \in StartedNow
                   /\ ~sObjs'[sTailers'[cid]].shouldStop
                   /\ old # 0 => (old \in StartedNow \/ sObjs'[old] = NoTailer)
                   /\ \A t \in Live \ {old} : sObjs'[t] = sObjs[t]
                   /\ ChanTaken
    /\ (Cardinality(StartedNow) = 0 => sNextChan' = sNextChan)
    /\ (Cardinality(StartedNow) # 0 => (Cardinality(StartedNow) = 1 /\ ChanTaken))

\* C22 as stated: each such step is as claimed, and a container is given
\* at most one fresh tailer in one cycle, however many sources match it.
C22_OneFreshTailerPerCycle ==
    /\ [][PairStepAsClaimed]_vars
    /\ [][\A t \in StartedNow : sObjs'[t].cid \notin sScan.made]_vars

\* C22 as the code has it: each such step is as claimed; a container is
\* given a second fresh tailer in one cycle only when the fresh one has itself
\* signalled stop before a later matching source is looked at.
C22_FreshTailerUnlessSignalledAgain ==
    /\ [][PairStepAsClaimed]_vars
    /\ [][\A t \in StartedNow :
             sObjs'[t].cid \in sScan.made =>
                 LET old == sTailers[sObjs'[t].cid]
                 IN  old # 0 /\ sObjs[old].shouldStop]_vars

\* C22 happens: a scan has replaced the tailer of a container that two
\* sources match, and is past both sources with one fresh tailer registered.
C22_Witness ==
    /\ sPc = "pairs"
    /\ Len(sSources) >= 2
    /\ \E c \in sScan.made :
          /\ sScan.i > 1
          /\ sScan.snap[1].ID = c
          /\ \A j \in 1..Len(sSources) : sourceShouldMonitorContainer(sSources[j], sScan.snap[1])
          /\ sLast.valid /\ c \in sLast.ids
          /\ sTailers[c] # 0
          /\ ~sObjs[sTailers[c]].shouldStop
          /\ Cardinality({t \in Live : sObjs[t].cid = c}) = 1

(***************************************************************************)
(* Claims about the match predicate.  The label filter is restated here    *)
(* without the scanning functions: by positions in the filter string.      *)
(***************************************************************************)
MatchDone == mPc = "done"

\* The entries of a comma-separated list: the substrings s[i..j] (j = i-1 for
\* an empty entry) that hold no comma and are delimited by commas or the ends.
EntryBounds(s) ==
    {b \in (1..(Len(s) + 1)) \X (0..Len(s)) :
        /\ b[2] >= b[1] - 1
        /\ \A k \in b[1]..b[2] : s[k] # ","
        /\ (b[1] = 1 \/ s[b[1] - 1] = ",")
        /\ (b[2] = Len(s) \/ s[b[2] + 1] = ",")}

\* t is e without its leading and trailing spaces.
IsTrimOf(t, e) ==
    \E p \in 1..(Len(e) + 1), q \in 0..Len(e) :
        /\ t = SubSeq(e, p, q)
        /\ \A k \in 1..(p - 1) : e[k] = " "
        /\ \A k \in (q + 1)..Len(e) : e[k] = " "
        /\ (t # EmptyStr => t[1] # " " /\ t[Len(t)] # " ")
        /\ (t = EmptyStr => \A k \in 1..Len(e) : e[k] = " ")

\* t is key, one or more of ':' '=', value - possibly with more separators in
\* front and behind - and key and value are not empty and hold no separator.
IsKeyValue(t, key, val) ==
    \E a \in 1..Len(t), b \in 1..Len(t), c \in 1..Len(t), d \in 1..Len(t) :
        /\ a <= b /\ b + 1 < c /\ c <= d
        /\ key = SubSeq(t, a, b)
        /\ val = SubSeq(t, c, d)
        /\ \A k \in 1..Len(t) :
              (k \in a..b \/ k \in c..d) <=> (t[k] # ":" /\ t[k] # "=")

\* At least one entry of the filter names a label key of the container, or a
\* key and the value the container maps it to.
SomeLabelEntryAccepts(filter, labels) ==
    \E b \in EntryBounds(filter) :
        \E t \in {SubSeq(filter, p, q) : p \in b[1]..(b[2] + 1), q \in (b[1] - 1)..b[2]} :
            /\ IsTrimOf(t, SubSeq(filter, b[1], b[2]))
            /\ \/ t \in LabelKeys(labels)
               \/ \E kv \in labels : IsKeyValue(t, kv[1], kv[2])

\* C4 as stated: a source that configures an image matches exactly the
\* containers with that image, whatever the label filter says.
C4_ImageAloneDecides ==
    (MatchDone /\ mSource.Image # EmptyStr)
        => (mResult <=> mContainer.Image = mSource.Image)

\* C4 amended: a source that configures an image matches exactly the
\* containers with that image that also pass its label filter, when it has
\* one: the two filters are both applied.
C4_ImageAndLabelBothApply ==
    (MatchDone /\ mSource.Image # EmptyStr)
        => (mResult <=> /\ mContainer.Image = mSource.Image
                        /\ \/ mSource.Label = EmptyStr
                           \/ SomeLabelEntryAccepts(mSource.Label, mContainer.Labels))

\* The image is the right one and the label filter is what rejects.
C4_Witness ==
    /\ MatchDone
    /\ mSource.Image # EmptyStr
    /\ mContainer.Image = mSource.Image
    /\ mSource.Label # EmptyStr
    /\ mResult = FALSE

\* C5: with no image filter, a non-empty label filter accepts exactly the
\* containers that one of its trimmed entries names (a label key, or key and
\* value split on ':' or '='), and an empty label filter accepts everything.
C5_LabelFilter ==
    (MatchDone /\ mSource.Image = EmptyStr)
        => /\ mSource.Label # EmptyStr
                => (mResult <=> SomeLabelEntryAccepts(mSource.Label, mContainer.Labels))
           /\ mSource.Label = EmptyStr => mResult = TRUE
           \* 'a:b' accepts a=b and rejects a=a; 'a' asks for the key a
           /\ mSource.Label = <<"a", ":", "b">>
                => (mResult <=> \/ <<<<"a">>, <<"b">>>> \in mContainer.Labels
                                \/ <<"a", ":", "b">> \in LabelKeys(mContainer.Labels))
           /\ mSource.Label = <<"a">>
                => (mResult <=> <<"a">> \in LabelKeys(mContainer.Labels))

\* A list of two entries, the second of which, after trimming, is a label key
\* of the container.
C5_Witness ==
    /\ MatchDone
    /\ mSource.Image = EmptyStr
    /\ mSource.Label = <<"b", ",", " ", "a">>
    /\ mContainer.Labels = {<<<<"a">>, <<"b">>>>}
    /\ mResult = TRUE

(***************************************************************************)
(* Claims about the eventFanout                                            *)
(***************************************************************************)
\* The items an output was handed, as a set.
DeliveredTo(out) == {out.delivered[i] : i \in 1..Len(out.delivered)}

\* Item n is still on its way to the listener `name`: a loop holds it and
\* has not yet tried this listener.
InFlight(n, name) ==
    \E d \in LoopIds :
        /\ eLoops[d].item.n = n
        /\ \/ eLoops[d].pc = "rlock"
           \/ eLoops[d].pc = "bcast" /\ name \in eLoops[d].todo

\* An output that is still suscribed and on which no write timed out.
Healthy(out) == ~out.closed /\ out.timedItem = 0

\* C8: Setup returns an error, returns no channels and changes nothing
\* (config, input channels, stop channel, mapping) for every config with a
\* non-positive writeTimeout, a non-positive outputBufferSize or an empty
\* name; for every other config it returns no error and the fresh input
\* pair, and installs the config and an empty mapping.
C8_SetupValidates ==
    eSetup.pc = "ret" =>
        IF setupRefusesNonPositive(eSetup.arg)
        THEN /\ eSetup.err
             /\ eSetup.chans = 0
             /\ eCfg = eSetup.cfg
             /\ eGen = eSetup.gen
             /\ eStop = eSetup.stop
             /\ eListeners = eSetup.listeners
        ELSE /\ ~eSetup.err
             /\ eGen = eSetup.gen + 1
             /\ eSetup.chans = eGen
             /\ eCfg = eSetup.arg
             /\ eListeners = [n \in Names |-> 0]

\* C9: an output on which no write timed out is handed every item taken
\* after its Suscribe returned, each once, and the items of one kind (data,
\* error) in the order of their publication.
C9_EveryItemOnceInOrder ==
    \A o \in 1..Len(eOuts) :
        LET out == eOuts[o] IN
        Healthy(out) =>
            /\ \A i, j \in 1..Len(out.delivered) :
                  (i < j /\ ePublished[out.delivered[i]] = ePublished[out.delivered[j]])
                      => out.delivered[i] < out.delivered[j]
            /\ \A n \in (out.since + 1)..Len(ePublished) :
                  n \in DeliveredTo(out) \/ InFlight(n, out.name)

\* C10, the round goes on: a loop that ends a round with bad listeners has
\* handed the item to every other listener of the round.
C10_RoundReachesOthers ==
    \A d \in LoopIds :
        eLoops[d].pc = "evict" =>
            \A o \in 1..Len(eOuts) :
                (Healthy(eOuts[o]) /\ eOuts[o].since < eLoops[d].item.n)
                    => eLoops[d].item.n \in DeliveredTo(eOuts[o])

\* C10, the eviction comes before the next item: an open output on which a
\* write timed out is a bad listener of a loop that has not yet gone back to
\* its select.
C10_EvictionPending ==
    \A o \in 1..Len(eOuts) :
        (~eOuts[o].closed /\ eOuts[o].timedItem # 0) =>
            \E d \in LoopIds :
                /\ eLoops[d].pc \in {"bcast", "evict"}
                /\ eOuts[o].name \in eLoops[d].bad

\* C10, nothing later is attempted: no output is tried with an item
\* published after the item whose write to it timed out.
C10_NoLaterAttempt ==
    \A o \in 1..Len(eOuts) : ~eOuts[o].late

\* C10: after a write timeout in a round the item still goes to the other
\* listeners, and the listener that timed out is removed and closed before
\* the next item is taken, so that no later item is attempted against it.
C10_TimedOutListenerEvictedFirst ==
    /\ C10_RoundReachesOthers
    /\ C10_EvictionPending
    /\ C10_NoLaterAttempt

\* The steps the dispatch goroutines and the blocked senders take on their
\* own; the runtime schedules each of them while it can run.
LoopSteps ==
    \/ \E d \in LoopIds : LoopStart(d)
    \/ \E d \in LoopIds : LoopTakeStop(d)
    \/ \E d \in LoopIds : LoopStop(d)
    \/ \E d \in LoopIds : LoopRLock(d)
    \/ \E d \in LoopIds, name \in Names : LoopSend(d, name)
    \/ \E d \in LoopIds, name \in Names : LoopEvict(d, name)
    \/ \E d \in LoopIds : LoopEvictResume(d)
    \/ UnsuscribeResume

\* A caller's Unsuscribe step that removes the listener `name`.
UnsuscribeRemoves(name) ==
    /\ eListeners[name] # 0
    /\ eListeners'[name] = 0
    /\ ~eOuts'[eListeners[name]].evicted
    /\ eLoops' = eLoops

\* The stop branch of UnsuscribeWithError (the one that returns true) was
\* taken in this step: the signal went into stopChan, or the caller is
\* blocked in the send.
AutoStopTaken == eStop' = eStop + 1 \/ (eLock = NoHolder /\ eLock' = Caller)

\* C11, the returned value: a caller's Unsuscribe takes the branch that
\* signals the stop and returns true exactly when the instance is running and
\* the removal empties the mapping.
C11_AutoStopReported ==
    [][\A name \in Names :
          UnsuscribeRemoves(name) =>
              (AutoStopTaken <=> (eRunning /\ \A n \in Names : eListeners'[n] = 0))]_vars

\* The last listener was removed from a running instance and its stop signal
\* waits in stopChan.
AutoStopSignalled == eRunning /\ Subscribed = {} /\ eStop > 0

\* C11: once the removal of the last listener of a running instance has
\* signalled the stop, the instance becomes not running with an empty
\* mapping, with no call of Stop.
C11_AutoStopCompletes ==
    AutoStopSignalled ~> (~eRunning /\ Subscribed = {})

\* The fields of the instance, its outputs and its goroutines.
FanoutState ==
    <<eCfg, eGen, eListeners, eOuts, eRunning, eStop, eStopWaiters, eLock, eReaders,
      eLoops, ePublished, ePanic>>

\* A call has just returned an error for a misuse.
MisuseReturned == eCall' # eCall /\ eCall' # "none"

\* C12: a Suscribe of a name that is suscribed and an Unsuscribe of a name
\* that is not return an error and leave the mapping, every output, running,
\* stopChan and the goroutines as they were.
C12_MisuseChangesNothing ==
    [][MisuseReturned => UNCHANGED FanoutState]_vars

\* C12 happens: an Unsuscribe of a name that is not suscribed was answered
\* with an error on a running instance that has a listener with items
\* enqueued and a pending stop signal.
C12_Witness ==
    /\ eCall = "Unsuscribe"
    /\ eRunning
    /\ eStop > 0
    /\ Subscribed # {}
    /\ \E o \in 1..Len(eOuts) : ~eOuts[o].closed /\ eOuts[o].delivered # <<>>

\* C13: Stop never blocks its caller: no caller of Stop waits in the send on
\* stopChan, whether a stop signal is already pending or not.
C13_StopNeverBlocks == eStopWaiters = 0

\* The dispatch goroutines that were launched and have not returned.
ActiveLoops == {d \in LoopIds : eLoops[d].pc # "none"}

\* C14: at most one dispatch loop is active at any time.
C14_AtMostOneDispatchLoop == Cardinality(ActiveLoops) <= 1

\* The dispatch goroutine d waits for the instance lock or in a send on
\* stopChan.
LoopWaits(d) == eLoops[d].pc \in {"spawned", "stop", "rlock", "evict", "evictblocked"}

\* C15: the fanout never deadlocks: a caller that waits in
\* UnsuscribeWithError returns, and no dispatch goroutine waits forever for
\* the lock or in its send on stopChan.
C15_NoDeadlock ==
    /\ []<>(eLock # Caller)
    /\ \A d \in LoopIds : []<>(~LoopWaits(d))

\* C16: the outputs of every subscription are closed exactly once: close
\* never runs twice on an output, and an output that is open is still in the
\* mapping, so none is left open by a removal, a stop or a new Setup.
C16_ClosedExactlyOnce ==
    \A o \in 1..Len(eOuts) :
        /\ eOuts[o].closes <= 1
        /\ eOuts[o].closed <=> eOuts[o].closes = 1
        /\ ~eOuts[o].closed => eListeners[eOuts[o].name] = o

\* C21: after a caller's Unsuscribe(name) removed the listener, the last
\* value its consumer reads from the error output before it sees it closed
\* is the error of the call (io.EOF), whatever was buffered; the output is
\* closed, once, and the name is not in the mapping any more.
C21_UnsuscribeDeliversError ==
    [][\A name \in Names :
          UnsuscribeRemoves(name) =>
              LET out == eOuts'[eListeners[name]]
              IN  /\ out.closed
                  /\ out.closes = 1
                  /\ out.err = <<ErrEOF>>
                  /\ eListeners'[name] = 0]_vars

\* C23: the forced eviction of the dispatch loop closes only subscriptions
\* whose enqueue timed out in the round before it: an output the loop has
\* closed by eviction had an item time out on it, also when its name was
\* unsuscribed and suscribed again between the round and the eviction.
C23_EvictsOnlyTimedOut ==
    \A o \in 1..Len(eOuts) : eOuts[o].evicted => eOuts[o].timedItem # 0

(***************************************************************************)
(* Specifications, one per component                                       *)
(***************************************************************************)
InitFiles == FilesInit /\ MatchIdle /\ ScannerIdle /\ FanoutZero

NextFiles == FilesToTail

SpecFiles == InitFiles /\ [][NextFiles]_vars

InitScanner == MatchIdle /\ FilesIdle /\ FanoutZero /\ \E raw \in RawSourceLists : New(raw)

NextScanner ==
    \/ Start
    \/ Tick
    \/ Run
    \/ ScanLock
    \/ ScanPair
    \/ ScanSweep
    \/ ScanReturn
    \/ \E t \in TailerIds : TailerSignal(t)
    \/ StopBegin
    \/ \E t \in TailerIds : StopTask(t)
    \/ StopWait
    \/ StopReturn

SpecScanner == InitScanner /\ [][NextScanner]_vars

InitMatch == MatchInit /\ ScannerIdle /\ FilesIdle /\ FanoutZero

NextMatch == Match

SpecMatch == InitMatch /\ [][NextMatch]_vars

InitSetup == FanoutZero /\ MatchIdle /\ ScannerIdle /\ FilesIdle

NextSetup ==
    \/ \E cfg \in Configs : Setup(cfg)
    \/ SetupReturn
    \/ Stop

SpecSetup == InitSetup /\ [][NextSetup]_vars

InitFanout ==
    /\ \E cfg \in FanoutConfigs : FanoutSetUp(cfg)
    /\ MatchIdle /\ ScannerIdle /\ FilesIdle

NextFanout ==
    \/ \E name \in Names : Suscribe(name)
    \/ \E name \in Names : Unsuscribe(name)
    \/ UnsuscribeResume
    \/ Stop
    \/ StopResume
    \/ \E d \in LoopIds : LoopStart(d)
    \/ \E d \in LoopIds : LoopTakeStop(d)
    \/ \E d \in LoopIds : LoopStop(d)
    \/ \E d \in LoopIds, kind \in {"data", "error"} : LoopTakeItem(d, kind)
    \/ \E d \in LoopIds : LoopRLock(d)
    \/ \E d \in LoopIds, name \in Names : LoopSend(d, name)
    \/ \E d \in LoopIds, name \in Names : LoopEvict(d, name)
    \/ \E d \in LoopIds : LoopEvictResume(d)
    \/ \E o \in 1..MaxOutputs : ConsumeData(o)
    \/ \E o \in 1..MaxOutputs : ConsumeError(o)

SpecFanout == InitFanout /\ [][NextFanout]_vars

\* The same instance when nobody calls Stop: a stop is then only signalled
\* by the removal of the last listener.  (A dispatch goroutine blocked in its
\* own send on stopChan is then never released: no second goroutine is left
\* to receive the pending signal.)
NextAutoStop ==
    \/ \E name \in Names : Suscribe(name)
    \/ \E name \in Names : Unsuscribe(name)
    \/ UnsuscribeResume
    \/ \E d \in LoopIds : LoopStart(d)
    \/ \E d \in LoopIds : LoopTakeStop(d)
    \/ \E d \in LoopIds : LoopStop(d)
    \/ \E d \in LoopIds, kind \in {"data", "error"} : LoopTakeItem(d, kind)
    \/ \E d \in LoopIds : LoopRLock(d)
    \/ \E d \in LoopIds, name \in Names : LoopSend(d, name)
    \/ \E d \in LoopIds, name \in Names : LoopEvict(d, name)
    \/ \E o \in 1..MaxOutputs : ConsumeData(o)
    \/ \E o \in 1..MaxOutputs : ConsumeError(o)

\* An instance that is stopped and set up again, with no wait in between:
\* Stop gives no acknowledgement.
NextRestart ==
    \/ \E name \in Names : Suscribe(name)
    \/ \E name \in Names : Unsuscribe(name)
    \/ Stop
    \/ StopResume
    \/ \E d \in LoopIds : LoopStart(d)
    \/ \E d \in LoopIds : LoopTakeStop(d)
    \/ \E d \in LoopIds : LoopStop(d)
    \/ \E cfg \in FanoutConfigs : Setup(cfg)
    \/ \E cfg \in FanoutConfigs : SetupInUse(cfg)
    \/ SetupReturn

SpecRestart == InitFanout /\ [][NextRestart]_vars

\* The same instance with the errors its calls return on record.
NextCalls ==
    \/ \E name \in Names : SuscribeCall(name)
    \/ \E name \in Names : UnsuscribeCall(name)
    \/ UnsuscribeResume
    \/ \E d \in LoopIds : LoopStart(d)
    \/ \E d \in LoopIds : LoopTakeStop(d)
    \/ \E d \in LoopIds : LoopStop(d)
    \/ \E d \in LoopIds, kind \in {"data", "error"} : LoopTakeItem(d, kind)
    \/ \E d \in LoopIds : LoopRLock(d)
    \/ \E d \in LoopIds, name \in Names : LoopSend(d, name)
    \/ \E d \in LoopIds, name \in Names : LoopEvict(d, name)
    \/ \E o \in 1..MaxOutputs : ConsumeData(o)
    \/ \E o \in 1..MaxOutputs : ConsumeError(o)

SpecCalls == InitFanout /\ [][NextCalls]_vars

SpecAutoStop == InitFanout /\ [][NextAutoStop]_vars /\ WF_vars(LoopSteps)

====
